---- MODULE Spec2Model ----
(***************************************************************************)
(* Model of the rendering synchronisation path of the Black engine:        *)
(*   - BitmapTextField.onRender and the dirty mask of a display object,    *)
(*   - CanvasDriver: shadow alpha / blend mode, clip scopes, resize,       *)
(*     texture blits, transforms and clear on a 2D canvas context,         *)
(*   - Sprite: the dirty marking of its setters,                           *)
(*   - Tween: play / pause / stop / reset, repeat, chain and the frame     *)
(*     update.                                                             *)
(***************************************************************************)
EXTENDS Integers, Sequences, FiniteSets, TLC

(* ------------------------------------------------------------------ *)
(* Bounds                                                             *)
(* ------------------------------------------------------------------ *)
\* the uptime, in ticks, after which no further frame is explored
MaxTime == 6
\* the most 'complete' listeners chain() registers on one tween
MaxChains == 1
\* deepest nesting of beginClip the model explores
MaxClipDepth == 2
\* longest run of failing cache rebuilds of one node that is counted
MaxFails == 2

(* ------------------------------------------------------------------ *)
(* State                                                              *)
(* ------------------------------------------------------------------ *)
VARIABLES
  field,              \* a BitmapTextField with its renderer
  flast,              \* the latest operation on it and what it saw
  chain,              \* node -> display object of the chain root -> A -> B
  cursor,             \* the node the traversal renders next; Root between frames
  clast,              \* the latest operation on the chain
  mGlobalAlpha,       \* the alpha the driver applied last (shadow)
  mGlobalBlendMode,   \* the composite operation the driver applied last (shadow)
  mClientWidth,
  mClientHeight,
  mStageScaleFactor,
  mCtx,               \* the canvas 2D context
  dlast,              \* the latest driver call and what it sent to the context
  pending,            \* per property: << >>, or <<shadow before the resize>> while
                      \* the property was not written since the last resize
  mTransform,         \* the matrix the driver took last
  mSnapToPixels,      \* the driver's pixel snapping flag
  viewport,           \* Black.instance.viewport: isTransperent, backgroundColor
  sprite,             \* a Sprite and its child: texture, tiling, dirty masks
  slast,              \* the latest operation on the sprite
  tweens,             \* tween -> Tween component
  uptime,             \* Black.instance.uptime, in ticks
  twlast,             \* the latest tween call and the messages it posted
  font,               \* a BitmapFontAsset with its texture and XML assets
  llast               \* the latest step of the font's loading

fieldVars == <<field, flast>>
chainVars == <<chain, cursor, clast>>
driverVars == <<mGlobalAlpha, mGlobalBlendMode, mClientWidth, mClientHeight,
                mStageScaleFactor, mCtx, dlast, pending>>
surfaceVars == <<mTransform, mSnapToPixels, viewport>>
spriteVars == <<sprite, slast>>
tweenVars == <<tweens, uptime, twlast>>
loaderVars == <<font, llast>>
vars == <<fieldVars, chainVars, driverVars, surfaceVars, spriteVars, tweenVars, loaderVars>>

(* ------------------------------------------------------------------ *)
(* Bit operations on dirty masks (JavaScript &, |, ^ on small ints)   *)
(* ------------------------------------------------------------------ *)
RECURSIVE BitAnd(_, _)
BitAnd(a, b) ==
  IF a = 0 \/ b = 0 THEN 0
  ELSE (IF a % 2 = 1 /\ b % 2 = 1 THEN 1 ELSE 0) + 2 * BitAnd(a \div 2, b \div 2)

RECURSIVE BitOr(_, _)
BitOr(a, b) ==
  IF a = 0 THEN b
  ELSE IF b = 0 THEN a
  ELSE (IF a % 2 = 1 \/ b % 2 = 1 THEN 1 ELSE 0) + 2 * BitOr(a \div 2, b \div 2)

RECURSIVE BitXor(_, _)
BitXor(a, b) ==
  IF a = 0 THEN b
  ELSE IF b = 0 THEN a
  ELSE (IF (a % 2) # (b % 2) THEN 1 ELSE 0) + 2 * BitXor(a \div 2, b \div 2)


(* ------------------------------------------------------------------ *)
(* DirtyFlag: the bits of a node's dirty mask                         *)
(* ------------------------------------------------------------------ *)
\* a bit that onRender does not service (world transform)
WORLD == 1
RENDER == 2
RENDER_CACHE == 4
\* the mask of a freshly constructed display object: everything is owed
DIRTY == 7
\* every mask over these bits
Masks == 0 .. DIRTY

(* ------------------------------------------------------------------ *)
(* BlendMode                                                          *)
(* ------------------------------------------------------------------ *)
AUTO == "auto"
NORMAL == "normal"
ADD == "add"
MULTIPLY == "multiply"
BlendModes == {AUTO, NORMAL, MULTIPLY}

(* ------------------------------------------------------------------ *)
(* Alpha values: exact fractions <<numerator, denominator>> in lowest  *)
(* terms, so that products can be compared.                            *)
(* ------------------------------------------------------------------ *)
RECURSIVE Gcd(_, _)
Gcd(a, b) == IF b = 0 THEN a ELSE Gcd(b, a % b)

Frac(n, d) == IF n = 0 THEN <<0, 1>> ELSE <<n \div Gcd(n, d), d \div Gcd(n, d)>>

\* JavaScript a * b on alpha values
Mul(x, y) == Frac(x[1] * y[1], x[2] * y[2])

Half == <<1, 2>>
FourFifths == <<4, 5>>
One == <<1, 1>>
Alphas == {Half, FourFifths, One}

(* ------------------------------------------------------------------ *)
(* BitmapTextField                                                    *)
(* ------------------------------------------------------------------ *)
\* a text is a sequence of characters; "\n" is the line break
NoText == << >>
FontData == "font"

\* a Rectangle dimension: a plain number, or the width / height that
\* TextMetricsEx.measureBitmap reports for (text, font data, line height)
Num(v) == <<"num", v>>
MeasuredWidth(text, data, lineHeight) == <<"width", text, data, lineHeight>>
MeasuredHeight(text, data, lineHeight) == <<"height", text, data, lineHeight>>

\* new Rectangle()
EmptyRect == [width |-> Num(0), height |-> Num(0)]

\* text.replace(/\n/g, '')
StripNewlines(text) == SelectSeq(text, LAMBDA c : c # "\n")

\* the renderer before its first synchronisation
NewRenderer ==
  [transform |-> "identity", alpha |-> One, blendMode |-> NORMAL, visible |-> TRUE,
   text |-> NoText, data |-> FontData, multiline |-> FALSE, lineHeight |-> 12,
   fieldWidth |-> 0, fieldHeight |-> 0, autoSize |-> TRUE, bounds |-> EmptyRect,
   dirty |-> 0]

\* new BitmapTextField(font): a display object with everything dirty
\* (line height 1.2 is kept in tenths)
NewBitmapTextField ==
  [mDirty |-> DIRTY, mAlpha |-> One, mBlendMode |-> NORMAL, mVisible |-> TRUE,
   mText |-> NoText, mData |-> FontData, mAutoSize |-> TRUE, mMultiline |-> FALSE,
   mLineHeight |-> 12, mFieldWidth |-> 0, mFieldHeight |-> 0,
   mTextBounds |-> EmptyRect, mRenderer |-> NewRenderer]

\* DisplayObject.finalTransformation: the node's world transform
finalTransformation(node) == "world"

\* mTextBounds after onGetLocalBounds ran
MeasuredBounds(node) ==
  IF BitAnd(node.mDirty, RENDER_CACHE) # 0
  THEN LET text == IF node.mMultiline = FALSE THEN StripNewlines(node.mText)
                   ELSE node.mText
       IN  [width |-> MeasuredWidth(text, node.mData, node.mLineHeight),
            height |-> MeasuredHeight(text, node.mData, node.mLineHeight)]
  ELSE node.mTextBounds

\* the rectangle onGetLocalBounds returns
onGetLocalBounds(node) ==
  IF node.mAutoSize = FALSE
  THEN [width |-> Num(node.mFieldWidth), height |-> Num(node.mFieldHeight)]
  ELSE MeasuredBounds(node)

\* an alpha that is stored as an absolute value
InheritAlphaAbsolute(alpha, parentAlpha) == alpha

\* onRender: renderer.alpha = this.mAlpha * parentRenderer.alpha
InheritAlpha(alpha, parentAlpha) == Mul(alpha, parentAlpha)

\* a blend mode that is copied without resolving AUTO
ResolveBlendModeCopied(blendMode, parentBlendMode) == blendMode

\* onRender: renderer.blendMode = AUTO ? parentRenderer.blendMode : own
ResolveBlendMode(blendMode, parentBlendMode) ==
  IF blendMode = AUTO THEN parentBlendMode ELSE blendMode

\* a RENDER step that forgets to clear its bit
ClearRenderForgotten(dirty) == dirty

\* onRender: this.mDirty ^= DirtyFlag.RENDER
ClearRender(dirty) == BitXor(dirty, RENDER)

\* a RENDER_CACHE step that clears its bit whatever the rebuild produced
ClearRenderCacheAlways(dirty, isRenderable) == BitXor(dirty, RENDER_CACHE)

\* onRender: if (renderer.isRenderable === true) this.mDirty ^= RENDER_CACHE
ClearRenderCache(dirty, isRenderable) ==
  IF isRenderable = TRUE THEN BitXor(dirty, RENDER_CACHE) ELSE dirty

\* onRender, the RENDER step
SyncRender(node, parentRenderer) ==
  IF BitAnd(node.mDirty, RENDER) # 0
  THEN [node EXCEPT
          !.mRenderer.transform = finalTransformation(node),
          !.mRenderer.alpha = InheritAlpha(node.mAlpha, parentRenderer.alpha),
          !.mRenderer.blendMode =
             ResolveBlendMode(node.mBlendMode, parentRenderer.blendMode),
          !.mRenderer.visible = node.mVisible,
          !.mDirty = ClearRender(node.mDirty)]
  ELSE node

\* a RENDER_CACHE step whose toggle sits outside the test of the bit
SyncRenderCacheToggle(node, isRenderable) ==
  LET rebuilt ==
        IF BitAnd(node.mDirty, RENDER_CACHE) # 0
        THEN [node EXCEPT
                !.mRenderer.text = node.mText,
                !.mRenderer.data = node.mData,
                !.mRenderer.multiline = node.mMultiline,
                !.mRenderer.lineHeight = node.mLineHeight,
                !.mRenderer.fieldWidth = node.mFieldWidth,
                !.mRenderer.fieldHeight = node.mFieldHeight,
                !.mRenderer.autoSize = node.mAutoSize,
                !.mRenderer.bounds = onGetLocalBounds(node),
                !.mTextBounds = MeasuredBounds(node)]
        ELSE node
  IN  [rebuilt EXCEPT !.mDirty = IF isRenderable = TRUE
                                 THEN BitXor(node.mDirty, RENDER_CACHE)
                                 ELSE node.mDirty]

\* onRender, the RENDER_CACHE step; isRenderable is what
\* renderer.isRenderable answers after the rebuild
SyncRenderCache(node, isRenderable) ==
  IF BitAnd(node.mDirty, RENDER_CACHE) # 0
  THEN [node EXCEPT
          !.mRenderer.text = node.mText,
          !.mRenderer.data = node.mData,
          !.mRenderer.multiline = node.mMultiline,
          !.mRenderer.lineHeight = node.mLineHeight,
          !.mRenderer.fieldWidth = node.mFieldWidth,
          !.mRenderer.fieldHeight = node.mFieldHeight,
          !.mRenderer.autoSize = node.mAutoSize,
          !.mRenderer.bounds = onGetLocalBounds(node),
          !.mTextBounds = MeasuredBounds(node),
          !.mDirty = ClearRenderCache(node.mDirty, isRenderable)]
  ELSE node

\* a renderer.dirty that is taken from the mask after the clearing
RendererDirtyAfter(oldDirty, dirty) == dirty

\* onRender: renderer.dirty = oldDirty
RendererDirty(oldDirty, dirty) == oldDirty

\* BitmapTextField.onRender(driver, parentRenderer): the node afterwards
onRender(node, parentRenderer, isRenderable) ==
  LET oldDirty == node.mDirty
      synced == SyncRenderCache(SyncRender(node, parentRenderer), isRenderable)
  IN  [synced EXCEPT !.mRenderer.dirty = RendererDirty(oldDirty, synced.mDirty)]

(* ------------------------------------------------------------------ *)
(* DisplayObject: dirty marking and the attributes onRender mirrors    *)
(* ------------------------------------------------------------------ *)
\* setDirty(flag, false): OR the flag into the node's mask
setDirty(node, flag) == [node EXCEPT !.mDirty = BitOr(node.mDirty, flag)]

\* values driver.registerRenderer may return: null or a render session
Handles == {0, 1}

\* renderers a parent can hand down: any alpha, any resolved blend mode
ParentRenderers ==
  {[alpha |-> a, blendMode |-> b] : a \in {Half, One}, b \in {NORMAL, MULTIPLY}}

\* how many failing rebuilds in a row, counted up to MaxFails
CountFails(n, failed) == IF ~failed THEN 0 ELSE IF n < MaxFails THEN n + 1 ELSE MaxFails

\* field.setDirty(flag, false)
FieldSetDirty(flag) ==
  /\ field' = setDirty(field, flag)
  /\ flast' = [flast EXCEPT !.op = "setDirty", !.pre = field.mDirty]
  /\ UNCHANGED <<chainVars, driverVars, surfaceVars, spriteVars, tweenVars, loaderVars>>

\* field.visible = value, which ends in setRenderDirty()
FieldSetVisible(value) ==
  /\ field.mVisible # value
  /\ field' = setDirty([field EXCEPT !.mVisible = value], RENDER)
  /\ flast' = [flast EXCEPT !.op = "visible", !.pre = field.mDirty]
  /\ UNCHANGED <<chainVars, driverVars, surfaceVars, spriteVars, tweenVars, loaderVars>>

\* the frame driver renders the field
FieldRender(parentRenderer, isRenderable, handle) ==
  /\ field' = onRender(field, parentRenderer, isRenderable)
  /\ flast' = [op |-> "onRender", pre |-> field.mDirty, parent |-> parentRenderer,
               isRenderable |-> isRenderable, ret |-> handle,
               fails |-> CountFails(flast.fails,
                                    BitAnd(field.mDirty, RENDER_CACHE) # 0
                                      /\ ~isRenderable)]
  /\ UNCHANGED <<chainVars, driverVars, surfaceVars, spriteVars, tweenVars, loaderVars>>

\* a content setter that does not mark the node
MarkContentForgotten(node) == node

\* the end of every content setter: this.setDirty(DirtyFlag.RENDER_CACHE, false)
MarkContent(node) == setDirty(node, RENDER_CACHE)

\* the values the setters are called with
Texts == {NoText, <<"a", "\n", "b">>}
LineHeights == {12, 10}
FieldSizes == {0, 5}

\* the call record of a setter
SetterCall(opName) ==
  [flast EXCEPT !.op = opName, !.pre = 0, !.isRenderable = FALSE, !.ret = 0, !.fails = 0]

\* field.text = value
SetText(value) ==
  /\ field' = IF field.mText = value THEN field
              ELSE MarkContent([field EXCEPT !.mText = value])
  /\ flast' = SetterCall("text")
  /\ UNCHANGED <<chainVars, driverVars, surfaceVars, spriteVars, tweenVars, loaderVars>>

\* field.multiline = value
SetMultiline(value) ==
  /\ field' = MarkContent([field EXCEPT !.mMultiline = value])
  /\ flast' = SetterCall("multiline")
  /\ UNCHANGED <<chainVars, driverVars, surfaceVars, spriteVars, tweenVars, loaderVars>>

\* field.lineHeight = value
SetLineHeight(value) ==
  /\ field' = MarkContent([field EXCEPT !.mLineHeight = value])
  /\ flast' = SetterCall("lineHeight")
  /\ UNCHANGED <<chainVars, driverVars, surfaceVars, spriteVars, tweenVars, loaderVars>>

\* field.fieldWidth = value
SetFieldWidth(value) ==
  /\ field' = IF value = field.mFieldWidth THEN field
              ELSE MarkContent([field EXCEPT !.mFieldWidth = value])
  /\ flast' = SetterCall("fieldWidth")
  /\ UNCHANGED <<chainVars, driverVars, surfaceVars, spriteVars, tweenVars, loaderVars>>

\* field.fieldHeight = value
SetFieldHeight(value) ==
  /\ field' = IF value = field.mFieldHeight THEN field
              ELSE MarkContent([field EXCEPT !.mFieldHeight = value])
  /\ flast' = SetterCall("fieldHeight")
  /\ UNCHANGED <<chainVars, driverVars, surfaceVars, spriteVars, tweenVars, loaderVars>>

\* field.autoSize = value
SetAutoSize(value) ==
  /\ field' = IF field.mAutoSize = value THEN field
              ELSE MarkContent([field EXCEPT !.mAutoSize = value])
  /\ flast' = SetterCall("autoSize")
  /\ UNCHANGED <<chainVars, driverVars, surfaceVars, spriteVars, tweenVars, loaderVars>>

FieldInit ==
  /\ field = NewBitmapTextField
  /\ flast = [op |-> "new", pre |-> DIRTY, parent |-> [alpha |-> One, blendMode |-> NORMAL],
              isRenderable |-> FALSE, ret |-> 0, fails |-> 0]

\* a text field under its content setters and rendering
TextNext ==
  \/ \E value \in Texts : SetText(value)
  \/ \E value \in BOOLEAN : SetMultiline(value)
  \/ \E value \in LineHeights : SetLineHeight(value)
  \/ \E value \in FieldSizes : SetFieldWidth(value)
  \/ \E value \in FieldSizes : SetFieldHeight(value)
  \/ \E value \in BOOLEAN : SetAutoSize(value)
  \/ \E isRenderable \in BOOLEAN, handle \in Handles :
       FieldRender([alpha |-> One, blendMode |-> NORMAL], isRenderable, handle)

FieldNext ==
  \/ \E flag \in Masks \ {0} : FieldSetDirty(flag)
  \/ \E value \in BOOLEAN : FieldSetVisible(value)
  \/ \E parentRenderer \in ParentRenderers, isRenderable \in BOOLEAN, handle \in Handles :
       FieldRender(parentRenderer, isRenderable, handle)

(* ------------------------------------------------------------------ *)
(* The scene: a chain root -> A -> B rendered parent before child      *)
(* ------------------------------------------------------------------ *)
Root == 0
NodeA == 1
NodeB == 2
Nodes == {Root, NodeA, NodeB}

\* the renderer the frame driver hands to the root's onRender
StageRenderer == [alpha |-> One, blendMode |-> NORMAL]

\* setRenderDirty() on node n: setDirty(RENDER, true), children included
setRenderDirty(nodes, n) ==
  [m \in Nodes |-> IF m >= n THEN setDirty(nodes[m], RENDER) ELSE nodes[m]]

\* chain[n].alpha = value
SetAlpha(n, value) ==
  /\ cursor = Root
  /\ chain[n].mAlpha # value
  /\ chain' = setRenderDirty([chain EXCEPT ![n].mAlpha = value], n)
  /\ clast' = [op |-> "alpha", node |-> n, pre |-> chain[n].mDirty]
  /\ UNCHANGED cursor
  /\ UNCHANGED <<fieldVars, driverVars, surfaceVars, spriteVars, tweenVars, loaderVars>>

\* chain[n].blendMode = value
SetBlendMode(n, value) ==
  /\ cursor = Root
  /\ chain[n].mBlendMode # value
  /\ chain' = setRenderDirty([chain EXCEPT ![n].mBlendMode = value], n)
  /\ clast' = [op |-> "blendMode", node |-> n, pre |-> chain[n].mDirty]
  /\ UNCHANGED cursor
  /\ UNCHANGED <<fieldVars, driverVars, surfaceVars, spriteVars, tweenVars, loaderVars>>

parentRendererOf(nodes, n) ==
  IF n = Root THEN StageRenderer ELSE nodes[n - 1].mRenderer

\* one step of the frame traversal: the next node in pre-order renders
ChainRender(isRenderable) ==
  /\ chain' = [chain EXCEPT ![cursor] =
                 onRender(chain[cursor], parentRendererOf(chain, cursor), isRenderable)]
  /\ clast' = [op |-> "onRender", node |-> cursor, pre |-> chain[cursor].mDirty]
  /\ cursor' = IF cursor = NodeB THEN Root ELSE cursor + 1
  /\ UNCHANGED <<fieldVars, driverVars, surfaceVars, spriteVars, tweenVars, loaderVars>>

ChainInit ==
  /\ chain = [n \in Nodes |-> NewBitmapTextField]
  /\ cursor = Root
  /\ clast = [op |-> "new", node |-> Root, pre |-> DIRTY]

AlphaNext ==
  \/ \E n \in Nodes, value \in Alphas : SetAlpha(n, value)
  \/ \E isRenderable \in BOOLEAN : ChainRender(isRenderable)

BlendNext ==
  \/ \E n \in Nodes, value \in BlendModes : SetBlendMode(n, value)
  \/ \E isRenderable \in BOOLEAN : ChainRender(isRenderable)

(* ------------------------------------------------------------------ *)
(* JavaScript numbers of a matrix: <<n, d>> with d > 0 is the fraction *)
(* n / d in lowest terms; d = 0 marks the non-finite values.           *)
(* ------------------------------------------------------------------ *)
NaN == <<0, 0>>
Infinity == <<1, 0>>
NegInfinity == <<-1, 0>>
Whole(n) == <<n, 1>>

isNaN(v) == v = NaN
isFinite(v) == v[2] # 0

\* x + y and x < y on finite numbers
Plus(x, y) == Frac(x[1] * y[2] + y[1] * x[2], x[2] * y[2])
Less(x, y) == x[1] * y[2] < y[1] * x[2]

\* v * k for a number v and an integer k >= 0
Times(v, k) == IF v[2] = 0 THEN v ELSE Frac(v[1] * k, v[2])

\* v | 0: the fraction is dropped, towards zero; non-finite values give 0
ToInt32(v) ==
  IF v[2] = 0 THEN Whole(0)
  ELSE IF v[1] >= 0 THEN Whole(v[1] \div v[2])
  ELSE Whole(-((-v[1]) \div v[2]))

\* a matrix is its value array <<a, b, c, d, tx, ty>>
Matrix(a, b, c, d, tx, ty) == <<a, b, c, d, tx, ty>>
IdentityTransform == Matrix(Whole(1), Whole(0), Whole(0), Whole(1), Whole(0), Whole(0))

(* ------------------------------------------------------------------ *)
(* The 2D canvas context the driver draws into                         *)
(* ------------------------------------------------------------------ *)
SourceOver == "source-over"

\* a CSS colour #rrggbb as its six hexadecimal digits
RECURSIVE HexDigits(_, _)
HexDigits(n, k) == IF k = 0 THEN << >> ELSE Append(HexDigits(n \div 16, k - 1), n % 16)

\* the drawing state save() pushes and restore() pops
DefaultDrawingState ==
  [globalAlpha |-> One, globalCompositeOperation |-> SourceOver, clip |-> << >>,
   transform |-> IdentityTransform, fillStyle |-> HexDigits(0, 6)]

\* the pixels of a canvas right after it was created or resized
BlankSurface == [paint |-> "none"]

\* a context right after its canvas was created or resized
FreshContext(width, height) ==
  [state |-> DefaultDrawingState, stack |-> << >>, width |-> width, height |-> height,
   surface |-> BlankSurface]

\* ctx.setTransform(a, b, c, d, e, f): ignored when an argument is not finite
ctxSetTransform(ctx, t) ==
  IF \A i \in 1 .. 6 : isFinite(t[i])
  THEN [ctx EXCEPT !.state.transform = t]
  ELSE ctx

\* ctx.fillStyle = style
ctxSetFillStyle(ctx, style) == [ctx EXCEPT !.state.fillStyle = style]

\* where the current transform puts the point (x, y)
DeviceX(t, x, y) == Plus(Plus(Times(t[1], x), Times(t[3], y)), t[5])
DeviceY(t, x, y) == Plus(Plus(Times(t[2], x), Times(t[4], y)), t[6])

Least(S) == CHOOSE x \in S : \A y \in S : ~Less(y, x)
Greatest(S) == CHOOSE x \in S : \A y \in S : ~Less(x, y)

\* the device rectangle <<left, top, right, bottom>> a rectangle is painted
\* to; the transforms of the model keep rectangles parallel to the axes
DeviceRect(t, x, y, w, h) ==
  LET xs == {DeviceX(t, cx, cy) : cx \in {x, x + w}, cy \in {y, y + h}}
      ys == {DeviceY(t, cx, cy) : cx \in {x, x + w}, cy \in {y, y + h}}
  IN  <<Least(xs), Least(ys), Greatest(xs), Greatest(ys)>>

\* ctx.fillRect(x, y, w, h)
ctxFillRect(ctx, x, y, w, h) ==
  [ctx EXCEPT !.surface = [paint |-> "fill", style |-> ctx.state.fillStyle,
                           region |-> DeviceRect(ctx.state.transform, x, y, w, h),
                           clipped |-> ctx.state.clip # << >>]]

\* ctx.clearRect(x, y, w, h)
ctxClearRect(ctx, x, y, w, h) ==
  [ctx EXCEPT !.surface = [paint |-> "clear", style |-> << >>,
                           region |-> DeviceRect(ctx.state.transform, x, y, w, h),
                           clipped |-> ctx.state.clip # << >>]]

\* a save() that was left out: nothing is pushed
ctxSaveForgotten(ctx) == ctx

\* ctx.save()
ctxSave(ctx) == [ctx EXCEPT !.stack = Append(ctx.stack, ctx.state)]

\* ctx.restore(): pops the saved drawing state; nothing to pop, nothing done
ctxRestore(ctx) ==
  IF ctx.stack = << >> THEN ctx
  ELSE [ctx EXCEPT !.state = ctx.stack[Len(ctx.stack)],
                   !.stack = SubSeq(ctx.stack, 1, Len(ctx.stack) - 1)]

\* ctx.beginPath(); ctx.rect(x, y, w, h); ctx.clip()
ctxClipRect(ctx, x, y, w, h) ==
  [ctx EXCEPT !.state.clip = Append(ctx.state.clip, <<x, y, w, h>>)]

\* ctx.globalAlpha = value: values outside [0, 1] are ignored
ctxSetGlobalAlpha(ctx, value) ==
  IF value[1] >= 0 /\ value[1] <= value[2]
  THEN [ctx EXCEPT !.state.globalAlpha = value]
  ELSE ctx

CompositeOperations == {SourceOver, "lighter", "multiply"}

\* ctx.globalCompositeOperation = value: unknown values are ignored
ctxSetGlobalCompositeOperation(ctx, value) ==
  IF value \in CompositeOperations
  THEN [ctx EXCEPT !.state.globalCompositeOperation = value]
  ELSE ctx

\* canvas.width = w; canvas.height = h: the context is reset
ctxSetSize(ctx, width, height) == FreshContext(width, height)

(* ------------------------------------------------------------------ *)
(* CanvasDriver                                                        *)
(* ------------------------------------------------------------------ *)
\* CanvasBlendMode: engine blend mode -> composite operation
CanvasBlendMode(blendMode) ==
  CASE blendMode = NORMAL -> SourceOver
    [] blendMode = ADD -> "lighter"
    [] blendMode = MULTIPLY -> "multiply"
    [] OTHER -> "undefined"

\* the shadow values __onResize stores: nothing applied yet
UnsetAlpha == <<-1, 1>>
UnsetBlendMode == "null"

\* textures handed to the driver: a loaded one, a loaded trimmed one, and
\* one whose image is not there (not loaded yet, or disposed)
Texture(valid, rx, ry, rw, rh, ux, uy, w, h) ==
  [isValid |-> valid, native |-> "img",
   region |-> [x |-> rx, y |-> ry, width |-> rw, height |-> rh],
   untrimmedRegion |-> [x |-> ux, y |-> uy],
   renderWidth |-> w, renderHeight |-> h]
LoadedTexture == Texture(TRUE, 0, 0, 4, 4, 0, 0, 4, 4)
TrimmedTexture == Texture(TRUE, 2, 1, 2, 3, 1, 1, 4, 4)
MissingTexture == Texture(FALSE, 0, 0, 4, 4, 0, 0, 4, 4)
Textures == {LoadedTexture, TrimmedTexture, MissingTexture}

Offsets == {<<0, 0>>, <<1, 2>>}
ClipRects == {[x |-> 0, y |-> 0, width |-> 2, height |-> 2],
              [x |-> 1, y |-> 0, width |-> 1, height |-> 2]}
ScaleFactors == {1, 2}
DriverAlphas == {Half, One}
DriverBlendModes == {AUTO, NORMAL, MULTIPLY}

\* a call record: the operation, its argument, the context property writes
\* and the drawImage calls it issued; first is <<shadow before the resize>>
\* when the call is the first write of its property since a resize;
\* asserted tells whether the call ended in a failed Debug.assert; calls
\* are the other context calls it made, in order; pre is <<the context's
\* transform clear found>>
Call(opName, arg, alphaWrites, blendWrites, draws) ==
  [op |-> opName, arg |-> arg, alphaWrites |-> alphaWrites,
   blendWrites |-> blendWrites, draws |-> draws, first |-> << >>,
   asserted |-> FALSE, calls |-> << >>, pre |-> << >>]

\* drawImage arguments whose offset is added after the scaling
DrawImageArgsOffsetUnscaled(texture, ox, oy, scale) ==
  [image |-> texture.native,
   sx |-> texture.region.x, sy |-> texture.region.y,
   sw |-> texture.region.width, sh |-> texture.region.height,
   dx |-> ox + texture.untrimmedRegion.x * scale,
   dy |-> oy + texture.untrimmedRegion.y * scale,
   dw |-> texture.renderWidth * scale, dh |-> texture.renderHeight * scale]

\* the arguments of this.mCtx.drawImage(...) in drawTextureWithOffset
DrawImageArgs(texture, ox, oy, scale) ==
  [image |-> texture.native,
   sx |-> texture.region.x, sy |-> texture.region.y,
   sw |-> texture.region.width, sh |-> texture.region.height,
   dx |-> (ox + texture.untrimmedRegion.x) * scale,
   dy |-> (oy + texture.untrimmedRegion.y) * scale,
   dw |-> texture.renderWidth * scale, dh |-> texture.renderHeight * scale]

\* the drawImage calls drawTextureWithOffset issues
DrawsWithOffset(texture, ox, oy) ==
  IF texture.isValid = FALSE THEN << >>
  ELSE << DrawImageArgs(texture, ox, oy, mStageScaleFactor) >>

\* a drawTexture that does not look at texture.isValid
DrawsUnchecked(texture) ==
  << [image |-> texture.native,
      sx |-> texture.region.x, sy |-> texture.region.y,
      sw |-> texture.region.width, sh |-> texture.region.height,
      dx |-> texture.untrimmedRegion.x * mStageScaleFactor,
      dy |-> texture.untrimmedRegion.y * mStageScaleFactor,
      dw |-> texture.renderWidth * mStageScaleFactor,
      dh |-> texture.renderHeight * mStageScaleFactor] >>

\* the drawImage calls drawTexture issues
Draws(texture) ==
  IF texture.isValid = FALSE THEN << >>
  ELSE << [image |-> texture.native,
           sx |-> texture.region.x, sy |-> texture.region.y,
           sw |-> texture.region.width, sh |-> texture.region.height,
           dx |-> texture.untrimmedRegion.x * mStageScaleFactor,
           dy |-> texture.untrimmedRegion.y * mStageScaleFactor,
           dw |-> texture.renderWidth * mStageScaleFactor,
           dh |-> texture.renderHeight * mStageScaleFactor] >>

\* CanvasDriver.drawTexture(texture); drawImage does not touch the state
drawTexture(texture) ==
  /\ dlast' = Call("drawTexture", texture, 0, 0, Draws(texture))
  /\ UNCHANGED <<mGlobalAlpha, mGlobalBlendMode, mClientWidth, mClientHeight,
                 mStageScaleFactor, mCtx, pending>>
  /\ UNCHANGED <<fieldVars, chainVars, surfaceVars, spriteVars, tweenVars, loaderVars>>

\* CanvasDriver.drawTextureWithOffset(texture, ox, oy)
drawTextureWithOffset(texture, ox, oy) ==
  /\ dlast' = Call("drawTextureWithOffset", <<texture, ox, oy>>, 0, 0,
                   DrawsWithOffset(texture, ox, oy))
  /\ UNCHANGED <<mGlobalAlpha, mGlobalBlendMode, mClientWidth, mClientHeight,
                 mStageScaleFactor, mCtx, pending>>
  /\ UNCHANGED <<fieldVars, chainVars, surfaceVars, spriteVars, tweenVars, loaderVars>>

\* CanvasDriver.beginClip(clipRect, px, py)
beginClip(clipRect, px, py) ==
  /\ Len(mCtx.stack) < MaxClipDepth
  /\ LET r == mStageScaleFactor
     IN  mCtx' = ctxClipRect(ctxSave(mCtx), (clipRect.x + px) * r, (clipRect.y + py) * r,
                             clipRect.width * r, clipRect.height * r)
  /\ dlast' = Call("beginClip", <<clipRect, px, py>>, 0, 0, << >>)
  /\ UNCHANGED <<mGlobalAlpha, mGlobalBlendMode, mClientWidth, mClientHeight,
                 mStageScaleFactor, pending>>
  /\ UNCHANGED <<fieldVars, chainVars, surfaceVars, spriteVars, tweenVars, loaderVars>>

\* CanvasDriver.endClip()
endClip ==
  /\ mCtx' = ctxRestore(mCtx)
  /\ dlast' = Call("endClip", Len(mCtx.stack), 0, 0, << >>)
  /\ UNCHANGED <<mGlobalAlpha, mGlobalBlendMode, mClientWidth, mClientHeight,
                 mStageScaleFactor, pending>>
  /\ UNCHANGED <<fieldVars, chainVars, surfaceVars, spriteVars, tweenVars, loaderVars>>

\* a setter that never short-circuits
AlphaNeverUnchanged(value, shadow) == FALSE

\* does the globalAlpha setter return before applying the value
AlphaUnchanged(value, shadow) == value = shadow

\* set globalAlpha(value)
globalAlpha(value) ==
  /\ IF AlphaUnchanged(value, mGlobalAlpha)
     THEN /\ UNCHANGED <<mGlobalAlpha, mCtx>>
          /\ dlast' = [Call("globalAlpha", value, 0, 0, << >>)
                         EXCEPT !.first = pending.alpha]
     ELSE /\ mGlobalAlpha' = value
          /\ mCtx' = ctxSetGlobalAlpha(mCtx, value)
          /\ dlast' = [Call("globalAlpha", value, 1, 0, << >>)
                         EXCEPT !.first = pending.alpha]
  /\ pending' = [pending EXCEPT !.alpha = << >>]
  /\ UNCHANGED <<mGlobalBlendMode, mClientWidth, mClientHeight, mStageScaleFactor>>
  /\ UNCHANGED <<fieldVars, chainVars, surfaceVars, spriteVars, tweenVars, loaderVars>>

\* a setter that sends AUTO through the table
BlendModeNeverRejected(blendMode) == FALSE

\* does the globalBlendMode setter return before the table lookup
BlendModeRejected(blendMode) == blendMode = AUTO

\* set globalBlendMode(blendMode)
globalBlendMode(blendMode) ==
  /\ IF BlendModeRejected(blendMode)
     THEN /\ UNCHANGED <<mGlobalBlendMode, mCtx>>
          /\ dlast' = Call("globalBlendMode", blendMode, 0, 0, << >>)
     ELSE LET mapped == CanvasBlendMode(blendMode)
          IN  IF mGlobalBlendMode = mapped
              THEN /\ UNCHANGED <<mGlobalBlendMode, mCtx>>
                   /\ dlast' = [Call("globalBlendMode", blendMode, 0, 0, << >>)
                                  EXCEPT !.first = pending.blendMode]
              ELSE /\ mGlobalBlendMode' = mapped
                   /\ mCtx' = ctxSetGlobalCompositeOperation(mCtx, mapped)
                   /\ dlast' = [Call("globalBlendMode", blendMode, 0, 1, << >>)
                                  EXCEPT !.first = pending.blendMode]
  /\ pending' = [pending EXCEPT !.blendMode = IF blendMode = AUTO THEN @ ELSE << >>]
  /\ UNCHANGED <<mGlobalAlpha, mClientWidth, mClientHeight, mStageScaleFactor>>
  /\ UNCHANGED <<fieldVars, chainVars, surfaceVars, spriteVars, tweenVars, loaderVars>>

\* a resize that keeps the shadow alpha
ResizedAlphaKept(shadow) == shadow

\* the shadow values after __onResize
ResizedAlpha(shadow) == UnsetAlpha
ResizedBlendMode(shadow) == UnsetBlendMode

\* CanvasDriver.__onResize(msg, rect); the base class takes the new client
\* size and device scale factor
onResize(width, height, scale) ==
  /\ mClientWidth' = width
  /\ mClientHeight' = height
  /\ mStageScaleFactor' = scale
  /\ mGlobalBlendMode' = ResizedBlendMode(mGlobalBlendMode)
  /\ mGlobalAlpha' = ResizedAlpha(mGlobalAlpha)
  /\ mCtx' = ctxSetSize(mCtx, width * scale, height * scale)
  /\ dlast' = Call("resize", <<width, height, scale>>, 0, 0, << >>)
  /\ pending' = [alpha |-> <<mGlobalAlpha>>, blendMode |-> <<mGlobalBlendMode>>]
  /\ UNCHANGED <<fieldVars, chainVars, surfaceVars, spriteVars, tweenVars, loaderVars>>

\* the matrices handed to setTransform: finite ones, and Shift with one
\* component replaced by NaN, tx by Infinity or d by -Infinity
Shift == Matrix(Whole(1), Whole(0), Whole(0), Whole(1), <<3, 2>>, <<-3, 2>>)
Zoom == Matrix(Whole(2), Whole(0), Whole(0), <<1, 2>>, <<5, 4>>, Whole(1))
Turn == Matrix(Whole(0), Whole(1), Whole(-1), Whole(0), Whole(4), <<1, 2>>)
FiniteMatrices == {IdentityTransform, Shift, Zoom, Turn}
BadMatrices ==
  {[Shift EXCEPT ![i] = NaN] : i \in 1 .. 6}
    \cup {[Shift EXCEPT ![5] = Infinity], [Shift EXCEPT ![4] = NegInfinity]}
Matrices == FiniteMatrices \cup BadMatrices

\* the Debug.assert calls of setTransform: does one of them fail
TransformAsserts(v) == \E i \in 1 .. 6 : isNaN(v[i])

\* a translation component that is snapped first and scaled afterwards
SnappedBeforeScale(t, scale) == Times(ToInt32(t), scale)

\* the translation component setTransform sends under mSnapToPixels
Snapped(t, scale) == ToInt32(Times(t, scale))

\* the arguments of this.mCtx.setTransform(...) in setTransform
SentTransform(v, snap, scale) ==
  IF snap = TRUE
  THEN <<v[1], v[2], v[3], v[4], Snapped(v[5], scale), Snapped(v[6], scale)>>
  ELSE <<v[1], v[2], v[3], v[4], Times(v[5], scale), Times(v[6], scale)>>

\* CanvasDriver.setTransform(m); a failed Debug.assert ends the call
setTransform(m) ==
  /\ LET sent == SentTransform(m, mSnapToPixels, mStageScaleFactor)
     IN  IF TransformAsserts(m)
         THEN /\ dlast' = [Call("setTransform", m, 0, 0, << >>) EXCEPT !.asserted = TRUE]
              /\ UNCHANGED <<mTransform, mCtx>>
         ELSE /\ mTransform' = m
              /\ mCtx' = ctxSetTransform(mCtx, sent)
              /\ dlast' = [Call("setTransform", m, 0, 0, << >>)
                             EXCEPT !.calls = << [fn |-> "setTransform", args |-> sent] >>]
  /\ UNCHANGED <<mGlobalAlpha, mGlobalBlendMode, mClientWidth, mClientHeight,
                 mStageScaleFactor, pending, mSnapToPixels, viewport>>
  /\ UNCHANGED <<fieldVars, chainVars, spriteVars, tweenVars, loaderVars>>

\* driver.snapToPixels = value
setSnapToPixels(value) ==
  /\ mSnapToPixels # value
  /\ mSnapToPixels' = value
  /\ dlast' = Call("snapToPixels", value, 0, 0, << >>)
  /\ UNCHANGED <<mGlobalAlpha, mGlobalBlendMode, mClientWidth, mClientHeight,
                 mStageScaleFactor, mCtx, pending, mTransform, viewport>>
  /\ UNCHANGED <<fieldVars, chainVars, spriteVars, tweenVars, loaderVars>>

BackgroundColors == {2236962, 16777215}

\* viewport.isTransperent = transparent; viewport.backgroundColor = color
setViewport(transparent, color) ==
  /\ viewport # [isTransperent |-> transparent, backgroundColor |-> color]
  /\ viewport' = [isTransperent |-> transparent, backgroundColor |-> color]
  /\ dlast' = Call("viewport", <<transparent, color>>, 0, 0, << >>)
  /\ UNCHANGED <<mGlobalAlpha, mGlobalBlendMode, mClientWidth, mClientHeight,
                 mStageScaleFactor, mCtx, pending, mTransform, mSnapToPixels>>
  /\ UNCHANGED <<fieldVars, chainVars, spriteVars, tweenVars, loaderVars>>

\* VideoNullDriver.hexColorToString(color)
hexColorToString(color) == HexDigits(color, 6)

\* a clear that leaves the transform as it is
ClearTransformKept(ctx) == ctx

\* the first statement of clear: this.mCtx.setTransform(1, 0, 0, 1, 0, 0)
ClearTransform(ctx) == ctxSetTransform(ctx, IdentityTransform)

\* CanvasDriver.clear()
clear ==
  /\ LET found == <<mCtx.state.transform>>
         reset == ClearTransform(mCtx)
         w == reset.width
         h == reset.height
         first == [fn |-> "setTransform", args |-> IdentityTransform]
     IN  IF viewport.isTransperent = FALSE
         THEN LET style == hexColorToString(viewport.backgroundColor)
              IN  /\ mCtx' = ctxFillRect(ctxSetFillStyle(reset, style), 0, 0, w, h)
                  /\ dlast' = [Call("clear", viewport, 0, 0, << >>)
                                 EXCEPT !.calls = << first,
                                                     [fn |-> "fillStyle", args |-> style],
                                                     [fn |-> "fillRect", args |-> <<0, 0, w, h>>] >>,
                                        !.pre = found]
         ELSE /\ mCtx' = ctxClearRect(reset, 0, 0, w, h)
              /\ dlast' = [Call("clear", viewport, 0, 0, << >>)
                             EXCEPT !.calls = << first,
                                                 [fn |-> "clearRect", args |-> <<0, 0, w, h>>] >>,
                                    !.pre = found]
  /\ UNCHANGED <<mGlobalAlpha, mGlobalBlendMode, mClientWidth, mClientHeight,
                 mStageScaleFactor, pending, mTransform, mSnapToPixels, viewport>>
  /\ UNCHANGED <<fieldVars, chainVars, spriteVars, tweenVars, loaderVars>>

InitialWidth == 4
InitialHeight == 4
SurfaceSizes == {<<2, 4>>}

\* new CanvasDriver(container, width, height): __createCanvas()
DriverInit ==
  /\ mGlobalAlpha = One
  /\ mGlobalBlendMode = UnsetBlendMode
  /\ mClientWidth = InitialWidth
  /\ mClientHeight = InitialHeight
  /\ mStageScaleFactor = 1
  /\ mCtx = FreshContext(InitialWidth, InitialHeight)
  /\ dlast = Call("new", 0, 0, 0, << >>)
  /\ pending = [alpha |-> << >>, blendMode |-> << >>]
  /\ mTransform = IdentityTransform
  /\ mSnapToPixels = FALSE
  /\ viewport = [isTransperent |-> TRUE, backgroundColor |-> 2236962]

DriverNext ==
  \/ \E texture \in Textures : drawTexture(texture)
  \/ \E texture \in Textures, o \in Offsets : drawTextureWithOffset(texture, o[1], o[2])
  \/ \E clipRect \in ClipRects : beginClip(clipRect, 1, 0)
  \/ endClip
  \/ \E value \in DriverAlphas : globalAlpha(value)
  \/ \E blendMode \in DriverBlendModes : globalBlendMode(blendMode)
  \/ \E size \in SurfaceSizes, scale \in ScaleFactors : onResize(size[1], size[2], scale)

\* the frame driver's use of the surface: transforms, clears, resizes
SurfaceNext ==
  \/ \E m \in Matrices : setTransform(m)
  \/ \E value \in BOOLEAN : setSnapToPixels(value)
  \/ \E transparent \in BOOLEAN, color \in BackgroundColors : setViewport(transparent, color)
  \/ clear
  \/ \E size \in SurfaceSizes, scale \in ScaleFactors : onResize(size[1], size[2], scale)

(* ------------------------------------------------------------------ *)
(* Sprite: a display object with one child                             *)
(* ------------------------------------------------------------------ *)
\* textures are told apart by identity; NoTexture is null
NoTexture == 0
PlainTexture == 1
SlicedTexture == 2
SpriteTextures == {NoTexture, PlainTexture, SlicedTexture}

\* what the setter reads from a texture; mSlice9borders 0 is null
TextureData(texture) ==
  IF texture = SlicedTexture
  THEN [mSlice9borders |-> 1, registrationPointX |-> 1, registrationPointY |-> 1]
  ELSE [mSlice9borders |-> 0, registrationPointX |-> 0, registrationPointY |-> 0]

\* values of tiling and slice9grid; 0 is null
GridValues == {0, 1}

\* new Sprite(null): the setter sees null === null and returns
NewSprite ==
  [mDirty |-> DIRTY, childDirty |-> DIRTY, mTexture |-> NoTexture,
   mTiling |-> 0, mSlice9grid |-> 0, mAnchorX |-> 0, mAnchorY |-> 0]

\* setDirty(flag, includeChildren) on the sprite
SpriteSetDirty(node, flag, includeChildren) ==
  LET own == setDirty(node, flag)
  IN  IF includeChildren
      THEN [own EXCEPT !.childDirty = BitOr(node.childDirty, flag)]
      ELSE own

\* setRenderDirty() on the sprite
SpriteSetRenderDirty(node) == SpriteSetDirty(node, RENDER, TRUE)

\* the marking calls that end the texture setter
MarkTexture(node) == SpriteSetRenderDirty(SpriteSetDirty(node, RENDER_CACHE, FALSE))

\* a tiling setter that only marks RENDER
MarkGridRenderOnly(node) == SpriteSetRenderDirty(node)

\* the marking calls that end the tiling and slice9grid setters
MarkGrid(node) == SpriteSetDirty(SpriteSetRenderDirty(node), RENDER_CACHE, FALSE)

\* anchorX = value / anchorY = value: a changed anchor moves the sprite
\* and what hangs below it
SetAnchor(node, x, y) ==
  IF node.mAnchorX = x /\ node.mAnchorY = y THEN node
  ELSE SpriteSetDirty([node EXCEPT !.mAnchorX = x, !.mAnchorY = y], WORLD, TRUE)

\* the masks of the sprite and of its child
MasksOf(node) == <<node.mDirty, node.childDirty>>

SpriteCall(opName, arg, pre, mid) ==
  [op |-> opName, arg |-> arg, pre |-> pre, mid |-> mid, threw |-> FALSE]

\* sprite.setDirty(flag, includeChildren)
SpriteMark(flag, includeChildren) ==
  /\ sprite' = SpriteSetDirty(sprite, flag, includeChildren)
  /\ slast' = SpriteCall("setDirty", <<flag, includeChildren>>, MasksOf(sprite), << >>)
  /\ UNCHANGED <<fieldVars, chainVars, driverVars, surfaceVars, tweenVars, loaderVars>>

\* sprite.texture = texture
SetTexture(texture) ==
  /\ IF sprite.mTexture = texture
     THEN /\ UNCHANGED sprite
          /\ slast' = SpriteCall("texture", texture, MasksOf(sprite), << >>)
     ELSE IF texture = NoTexture
     THEN \* texture.mSlice9borders of null throws after the assignment
          /\ sprite' = [sprite EXCEPT !.mTexture = texture]
          /\ slast' = [SpriteCall("texture", texture, MasksOf(sprite), << >>)
                         EXCEPT !.threw = TRUE]
     ELSE LET data == TextureData(texture)
              assigned == [sprite EXCEPT !.mTexture = texture]
              sliced == IF data.mSlice9borders # 0
                        THEN MarkGrid([assigned EXCEPT !.mSlice9grid = data.mSlice9borders])
                        ELSE assigned
              anchored == SetAnchor(SetAnchor(sliced, data.registrationPointX, sliced.mAnchorY),
                                    data.registrationPointX, data.registrationPointY)
          IN  /\ sprite' = MarkTexture(anchored)
              /\ slast' = SpriteCall("texture", texture, MasksOf(sprite), MasksOf(anchored))
  /\ UNCHANGED <<fieldVars, chainVars, driverVars, surfaceVars, tweenVars, loaderVars>>

\* sprite.tiling = value
SetTiling(value) ==
  /\ LET assigned == [sprite EXCEPT !.mTiling = value]
     IN  /\ sprite' = MarkGrid(assigned)
         /\ slast' = SpriteCall("tiling", value, MasksOf(sprite), MasksOf(assigned))
  /\ UNCHANGED <<fieldVars, chainVars, driverVars, surfaceVars, tweenVars, loaderVars>>

\* sprite.slice9grid = value
SetSlice9grid(value) ==
  /\ LET assigned == [sprite EXCEPT !.mSlice9grid = value]
     IN  /\ sprite' = MarkGrid(assigned)
         /\ slast' = SpriteCall("slice9grid", value, MasksOf(sprite), MasksOf(assigned))
  /\ UNCHANGED <<fieldVars, chainVars, driverVars, surfaceVars, tweenVars, loaderVars>>

\* the mask onRender leaves: RENDER is serviced, and RENDER_CACHE when the
\* renderer is renderable
Serviced(dirty, isRenderable) ==
  LET synced == dirty - BitAnd(dirty, RENDER)
  IN  IF isRenderable THEN synced - BitAnd(synced, RENDER_CACHE) ELSE synced

\* a frame renders the sprite and its child
SpriteRender(isRenderable) ==
  /\ sprite' = [sprite EXCEPT !.mDirty = Serviced(sprite.mDirty, isRenderable),
                              !.childDirty = Serviced(sprite.childDirty, isRenderable)]
  /\ slast' = SpriteCall("onRender", isRenderable, MasksOf(sprite), << >>)
  /\ UNCHANGED <<fieldVars, chainVars, driverVars, surfaceVars, tweenVars, loaderVars>>

SpriteInit ==
  /\ sprite = NewSprite
  /\ slast = SpriteCall("new", 0, MasksOf(NewSprite), << >>)

SpriteFlags == {WORLD, RENDER, RENDER_CACHE, RENDER + RENDER_CACHE}

SpriteNext ==
  \/ \E flag \in SpriteFlags, includeChildren \in BOOLEAN : SpriteMark(flag, includeChildren)
  \/ \E texture \in SpriteTextures : SetTexture(texture)
  \/ \E value \in GridValues : SetTiling(value)
  \/ \E value \in GridValues : SetSlice9grid(value)
  \/ \E isRenderable \in BOOLEAN : SpriteRender(isRenderable)

(* ------------------------------------------------------------------ *)
(* Tween: two tween components on the engine clock                     *)
(* ------------------------------------------------------------------ *)
NoTween == 0
TweenA == 1
TweenB == 2
Tweens == {TweenA, TweenB}

\* the duration of both tweens, in ticks
Duration == 2
\* the ticks that pass between two frames
FrameSteps == {1, 2}
Durations == {0, Duration}
Delays == {0, 1}
RepeatCounts == {0, 1}

\* what the model remembers about a tween besides its fields:
\*   repeatSet  the argument of the latest repeat() call
\*   loops      the 'loop' messages posted since the latest start
\*   clean      the tween was started while idle and no play, stop, reset,
\*              repeat or removal has come since
\*   waiting    the tween was chained while neither added nor playing, and
\*              since then no play() of it was called and the tween it was
\*              chained to posted no 'complete'
\*   forced     chain() was called on the tween and removeOnComplete was
\*              not assigned since
NothingSeen ==
  [repeatSet |-> 0, loops |-> 0, clean |-> FALSE, waiting |-> FALSE, forced |-> FALSE,
   pausedAt |-> 0, starts |-> 0]

\* new Tween(values, duration); added tells whether the component is on a
\* game object; listeners are the tweens whose play() is registered on
\* 'complete'. The tweened values themselves are left out.
NewTween(duration) ==
  [mIsPlaying |-> FALSE, mIsPaused |-> FALSE, mStartTime |-> 0, mPausedTime |-> 0,
   mElapsed |-> Whole(0), mDelay |-> 0, mDuration |-> duration, mRepeatTimes |-> 0,
   mStarted |-> FALSE, mRemoveOnComplete |-> TRUE, mPlayOnAdded |-> TRUE,
   added |-> FALSE, listeners |-> << >>, seen |-> NothingSeen]

\* JavaScript n / d on integers: 0 / 0 is NaN, n / 0 is an infinity
Quotient(n, d) ==
  IF d # 0 THEN Frac(n, d)
  ELSE IF n = 0 THEN NaN ELSE IF n > 0 THEN Infinity ELSE NegInfinity

\* __start(t)
start(tw, t) == [tw EXCEPT !.mIsPlaying = TRUE, !.mStartTime = t + tw.mDelay]

\* __resume() at time t
resume(tw, t) ==
  IF ~tw.mIsPaused THEN tw
  ELSE [tw EXCEPT !.mIsPaused = FALSE, !.mStartTime = @ + t - tw.mPausedTime]

\* play() at time t
play(tw, t) == IF ~tw.mIsPaused THEN start(tw, t) ELSE resume(tw, t)

\* stop()
stop(tw) == IF ~tw.mIsPlaying THEN tw ELSE [tw EXCEPT !.mIsPlaying = FALSE]

\* reset() at time t
reset(tw, t) ==
  LET rewound == [tw EXCEPT !.mElapsed = Whole(0)]
  IN  IF rewound.mIsPlaying THEN play(rewound, t) ELSE rewound

\* pause() at time t
pause(tw, t) ==
  IF ~tw.mIsPlaying THEN tw
  ELSE [tw EXCEPT !.mIsPaused = TRUE, !.mPausedTime = t]

\* removeFromParent(): the component leaves its game object
removeFromParent(tw) ==
  [(IF tw.mIsPlaying THEN stop(tw) ELSE tw) EXCEPT !.added = FALSE]

\* repeat(times)
repeat(tw, times) == [tw EXCEPT !.mRepeatTimes = times]

\* a chain() that leaves the chained tween's playOnAdded alone
ChainTargetUntouched(tw) == tw

\* chain(tween): tween.playOnAdded = false
ChainTarget(tw) == [tw EXCEPT !.mPlayOnAdded = FALSE]

\* a.chain(b): the tweens afterwards and the value returned
chainTo(tws, a, b) ==
  IF b = NoTween THEN [tweens |-> tws, ret |-> a]
  ELSE [tweens |-> [tws EXCEPT ![a].mRemoveOnComplete = FALSE,
                               ![a].listeners = Append(@, b),
                               ![b] = ChainTarget(@)],
        ret |-> b]

\* onAdded(gameObject) at time t
onAdded(tw, t) == IF tw.mPlayOnAdded THEN start(tw, t) ELSE tw

\* post('complete'): the listeners run in the order they were registered
RECURSIVE PlayAll(_, _, _)
PlayAll(tws, targets, t) ==
  IF targets = << >> THEN tws
  ELSE PlayAll([tws EXCEPT ![Head(targets)] = play(@, t)], Tail(targets), t)

\* x.onPostUpdate(dt) with Time.now = t: the tweens afterwards, the messages
\* x posted and the tweens whose play() its listeners called
onPostUpdate(tws, x, t) ==
  LET tw == tws[x]
  IN  IF t < tw.mStartTime \/ ~tw.mIsPlaying \/ tw.mIsPaused
      THEN [tweens |-> tws, posted |-> << >>, played |-> << >>]
      ELSE
        LET first == IF tw.mStarted = FALSE THEN <<"start">> ELSE << >>
            ratio == Quotient(t - tw.mStartTime, tw.mDuration)
            elapsed == IF Less(One, ratio) THEN One ELSE ratio
            updated == [tw EXCEPT !.mStarted = TRUE, !.mElapsed = elapsed]
        IN  IF elapsed # One
            THEN [tweens |-> [tws EXCEPT ![x] = updated],
                  posted |-> first \o <<"update">>, played |-> << >>]
            ELSE IF tw.mRepeatTimes > 0
            THEN [tweens |-> [tws EXCEPT ![x] = [updated EXCEPT !.mRepeatTimes = @ - 1,
                                                               !.mStartTime = t + tw.mDelay]],
                  posted |-> first \o <<"update", "loop">>, played |-> << >>]
            ELSE
              LET stopped == [updated EXCEPT !.mRepeatTimes = @ - 1, !.mIsPlaying = FALSE]
                  heard == PlayAll([tws EXCEPT ![x] = stopped], stopped.listeners, t)
                  done == IF heard[x].mRemoveOnComplete
                          THEN removeFromParent(heard[x])
                          ELSE [heard[x] EXCEPT !.mStarted = FALSE]
              IN  [tweens |-> [heard EXCEPT ![x] = done],
                   posted |-> first \o <<"update", "complete">>,
                   played |-> stopped.listeners]

Posts(messages, message) == \E i \in 1 .. Len(messages) : messages[i] = message
NothingPosted == [x \in Tweens |-> << >>]

\* seen.starts tells whether 'start' was posted since the run was opened;
\* seen.pausedAt is the time of the pause() that found the tween playing and
\* not paused
\* a call record: posted maps each tween to the messages it posted, played
\* lists the tweens whose play() a listener called, runs maps a tween that
\* posted 'complete' to <<what was seen of the run that ended>>; pre is
\* <<the tweens before chain(null)>>, or <<which tweens a frame found added>>
TweenCall(opName, x, arg) ==
  [op |-> opName, tween |-> x, arg |-> arg, ret |-> NoTween,
   posted |-> NothingPosted, played |-> << >>, runs |-> NothingPosted, pre |-> << >>]

\* a start of an idle tween opens a run; any other start spoils the run
Started(old, new) ==
  IF ~old.mIsPlaying /\ ~old.mIsPaused /\ new.mIsPlaying
  THEN [new EXCEPT !.seen.loops = 0, !.seen.clean = TRUE, !.seen.starts = 0]
  ELSE IF old.mIsPaused /\ old.mIsPlaying THEN new
  ELSE [new EXCEPT !.seen.clean = FALSE]

\* x.play()
Play(x) ==
  /\ tweens' = [tweens EXCEPT ![x] =
                  [Started(tweens[x], play(tweens[x], uptime)) EXCEPT
                     !.seen.waiting = FALSE, !.seen.pausedAt = 0]]
  /\ twlast' = [TweenCall("play", x, 0) EXCEPT !.ret = x]
  /\ UNCHANGED uptime
  /\ UNCHANGED <<fieldVars, chainVars, driverVars, surfaceVars, spriteVars, loaderVars>>

\* x.stop()
Stop(x) ==
  /\ tweens' = [tweens EXCEPT ![x] = [stop(tweens[x]) EXCEPT !.seen.clean = FALSE]]
  /\ twlast' = [TweenCall("stop", x, 0) EXCEPT !.ret = x]
  /\ UNCHANGED uptime
  /\ UNCHANGED <<fieldVars, chainVars, driverVars, surfaceVars, spriteVars, loaderVars>>

\* x.pause()
Pause(x) ==
  /\ tweens' = [tweens EXCEPT ![x] =
                  [pause(tweens[x], uptime) EXCEPT !.seen.pausedAt =
                     IF tweens[x].mIsPlaying /\ ~tweens[x].mIsPaused THEN uptime ELSE @]]
  /\ twlast' = [TweenCall("pause", x, 0) EXCEPT !.ret = x]
  /\ UNCHANGED uptime
  /\ UNCHANGED <<fieldVars, chainVars, driverVars, surfaceVars, spriteVars, loaderVars>>

\* x.reset()
Reset(x) ==
  /\ tweens' = [tweens EXCEPT ![x] = [reset(tweens[x], uptime) EXCEPT !.seen.clean = FALSE]]
  /\ twlast' = [TweenCall("reset", x, 0) EXCEPT !.ret = x]
  /\ UNCHANGED uptime
  /\ UNCHANGED <<fieldVars, chainVars, driverVars, surfaceVars, spriteVars, loaderVars>>

\* x.repeat(times)
Repeat(x, times) ==
  /\ tweens' = [tweens EXCEPT ![x] =
                  [repeat(tweens[x], times) EXCEPT !.seen.repeatSet = times,
                                                   !.seen.clean = FALSE]]
  /\ twlast' = [TweenCall("repeat", x, times) EXCEPT !.ret = x]
  /\ UNCHANGED uptime
  /\ UNCHANGED <<fieldVars, chainVars, driverVars, surfaceVars, spriteVars, loaderVars>>

\* x.to(values, duration)
To(x, duration) ==
  /\ tweens' = [tweens EXCEPT ![x].mDuration = duration]
  /\ twlast' = [TweenCall("to", x, duration) EXCEPT !.ret = x]
  /\ UNCHANGED uptime
  /\ UNCHANGED <<fieldVars, chainVars, driverVars, surfaceVars, spriteVars, loaderVars>>

\* x.delay = value
SetDelay(x, value) ==
  /\ tweens' = [tweens EXCEPT ![x].mDelay = value]
  /\ twlast' = TweenCall("delay", x, value)
  /\ UNCHANGED uptime
  /\ UNCHANGED <<fieldVars, chainVars, driverVars, surfaceVars, spriteVars, loaderVars>>

\* x.removeOnComplete = value
SetRemoveOnComplete(x, value) ==
  /\ tweens[x].mRemoveOnComplete # value
  /\ tweens' = [tweens EXCEPT ![x].mRemoveOnComplete = value, ![x].seen.forced = FALSE]
  /\ twlast' = TweenCall("removeOnComplete", x, value)
  /\ UNCHANGED uptime
  /\ UNCHANGED <<fieldVars, chainVars, driverVars, surfaceVars, spriteVars, loaderVars>>

\* gameObject.addComponent(x): the component is attached and onAdded runs
Add(x) ==
  /\ ~tweens[x].added
  /\ tweens' = [tweens EXCEPT ![x] =
                  Started(tweens[x], onAdded([tweens[x] EXCEPT !.added = TRUE], uptime))]
  /\ twlast' = TweenCall("onAdded", x, 0)
  /\ UNCHANGED uptime
  /\ UNCHANGED <<fieldVars, chainVars, driverVars, surfaceVars, spriteVars, loaderVars>>

\* x.removeFromParent()
Remove(x) ==
  /\ tweens[x].added
  /\ tweens' = [tweens EXCEPT ![x] = [removeFromParent(tweens[x]) EXCEPT !.seen.clean = FALSE]]
  /\ twlast' = TweenCall("removeFromParent", x, 0)
  /\ UNCHANGED uptime
  /\ UNCHANGED <<fieldVars, chainVars, driverVars, surfaceVars, spriteVars, loaderVars>>

\* a.chain(b); b = NoTween is chain(null)
Chain(a, b) ==
  /\ a # b
  /\ Len(tweens[a].listeners) < MaxChains
  /\ LET result == chainTo(tweens, a, b)
     IN  /\ tweens' = IF b = NoTween THEN result.tweens
                      ELSE [result.tweens EXCEPT
                              ![a].seen.forced = TRUE,
                              ![b].seen.waiting = ~tweens[b].added /\ ~tweens[b].mIsPlaying]
         /\ twlast' = [TweenCall("chain", a, b) EXCEPT
                         !.ret = result.ret,
                         !.pre = IF b = NoTween THEN <<tweens>> ELSE << >>]
  /\ UNCHANGED uptime
  /\ UNCHANGED <<fieldVars, chainVars, driverVars, surfaceVars, spriteVars, loaderVars>>

\* what is remembered after a frame: loops are counted, a tween a listener
\* played is no longer waiting, and one it started from idle opens a run
Observed(before, after, posted, played) ==
  [x \in Tweens |->
     LET counted == [after[x] EXCEPT
                       !.seen.loops = IF Posts(posted[x], "loop") THEN @ + 1 ELSE @,
                       !.seen.starts = IF Posts(posted[x], "start") THEN 1 ELSE @]
     IN  IF \E i \in 1 .. Len(played) : played[i] = x
         THEN [Started(IF Posts(posted[x], "complete")
                       THEN [before[x] EXCEPT !.mIsPlaying = FALSE]
                       ELSE before[x],
                       counted) EXCEPT !.seen.waiting = FALSE]
         ELSE counted]

\* a frame: dt ticks pass, then every added tween gets onPostUpdate
Frame(dt) ==
  /\ uptime + dt <= MaxTime
  /\ LET t == uptime + dt
         idle == [tweens |-> tweens, posted |-> << >>, played |-> << >>]
         ra == IF tweens[TweenA].added THEN onPostUpdate(tweens, TweenA, t) ELSE idle
         rb == IF ra.tweens[TweenB].added
               THEN onPostUpdate(ra.tweens, TweenB, t)
               ELSE [ra EXCEPT !.posted = << >>, !.played = << >>]
         posted == [x \in Tweens |-> IF x = TweenA THEN ra.posted ELSE rb.posted]
         played == ra.played \o rb.played
         counted == [x \in Tweens |->
                       tweens[x].seen.loops + (IF Posts(posted[x], "loop") THEN 1 ELSE 0)]
     IN  /\ tweens' = Observed(tweens, rb.tweens, posted, played)
         /\ twlast' = [TweenCall("frame", NoTween, dt) EXCEPT
                         !.posted = posted, !.played = played,
                         !.pre = << [x \in Tweens |-> [added |-> tweens[x].added]] >>,
                         !.runs = [x \in Tweens |->
                                     IF Posts(posted[x], "complete")
                                     THEN << [tweens[x].seen EXCEPT !.loops = counted[x]] >>
                                     ELSE << >>]]
  /\ uptime' = uptime + dt
  /\ UNCHANGED <<fieldVars, chainVars, driverVars, surfaceVars, spriteVars, loaderVars>>

TweenInit ==
  /\ tweens = [x \in Tweens |-> NewTween(Duration)]
  /\ uptime = 0
  /\ twlast = TweenCall("new", NoTween, 0)

\* one tween under every call of its interface
TweenNext ==
  \/ Play(TweenA)
  \/ Stop(TweenA)
  \/ Pause(TweenA)
  \/ Reset(TweenA)
  \/ \E times \in RepeatCounts : Repeat(TweenA, times)
  \/ \E value \in BOOLEAN : SetRemoveOnComplete(TweenA, value)
  \/ Add(TweenA)
  \/ Remove(TweenA)
  \/ \E dt \in FrameSteps : Frame(dt)

\* one tween that is configured, added and played, and then runs: nothing
\* pauses, stops or removes it from outside
RunNext ==
  \/ \E duration \in Durations : To(TweenA, duration)
  \/ \E value \in Delays : SetDelay(TweenA, value)
  \/ \E times \in RepeatCounts : Repeat(TweenA, times)
  \/ \E value \in BOOLEAN : SetRemoveOnComplete(TweenA, value)
  \/ Add(TweenA)
  \/ Play(TweenA)
  \/ \E dt \in FrameSteps : Frame(dt)

\* two tweens that are chained, added and played, with a frame every
\* Duration ticks
ChainedNext ==
  \/ \E a \in Tweens, b \in Tweens \cup {NoTween} : Chain(a, b)
  \/ \E x \in Tweens : Add(x)
  \/ \E x \in Tweens : Play(x)
  \/ Frame(Duration)

(* ------------------------------------------------------------------ *)
(* BitmapFontAsset: a texture asset and an XML asset loaded in sequence  *)
(* ------------------------------------------------------------------ *)
MaxLoads == 4

NoData == "none"
ImageData == "image"
DocumentData == "document"

\* constructor: both assets are created with a COMPLETE listener each;
\* nothing is requested yet
NewBitmapFontAsset ==
  [ imageRequests |-> 0,       \* requests of mTextureAsset in flight
    textureData   |-> NoData,  \* mTextureAsset.data
    xmlRequests   |-> 0,       \* requests of mXMLAsset in flight
    xmlData       |-> NoData,  \* mXMLAsset.data
    mData         |-> << >>,   \* the parsed font
    mIsLoaded     |-> FALSE,
    loads         |-> 0,       \* calls of load()
    loaded        |-> 0,       \* times the asset reported loaded
    lost          |-> 0 ]      \* requests that ended without COMPLETE

\* load(): mTextureAsset.load()
loadBoth(asset) ==
  [asset EXCEPT !.loads = @ + 1, !.imageRequests = @ + 1, !.xmlRequests = @ + 1]
load(asset) ==
  [asset EXCEPT !.loads = @ + 1, !.imageRequests = @ + 1]

\* onImageLoaded(): mXMLAsset.load()
onImageLoaded(asset) == [asset EXCEPT !.xmlRequests = @ + 1]

\* parse(xml, texture) reads the elements of xml and texture.region: it
\* throws on a missing document or a missing texture
parse(xml, texture) ==
  IF xml = NoData \/ texture = NoData
  THEN << >>
  ELSE << [xml |-> xml, texture |-> texture] >>

\* onLoaded(): parse what the two assets hold, then report loaded
onLoaded(asset) ==
  LET data == parse(asset.xmlData, asset.textureData)
  IN  IF data = << >>
      THEN asset
      ELSE [asset EXCEPT !.mData = data, !.mIsLoaded = TRUE, !.loaded = @ + 1]

\* onXMLLoaded(): onLoaded()
onXMLLoaded(asset) == onLoaded(asset)

LoaderCall(opName) == [op |-> opName, parsed |-> << >>, threw |-> FALSE]

Load ==
  /\ font.loads < MaxLoads
  /\ font' = load(font)
  /\ llast' = LoaderCall("load")
  /\ UNCHANGED <<fieldVars, chainVars, driverVars, surfaceVars, spriteVars, tweenVars>>

\* the image arrives: the texture asset holds its data and posts COMPLETE
ImageComplete ==
  /\ font.imageRequests > 0
  /\ font' = onImageLoaded([font EXCEPT !.imageRequests = @ - 1,
                                        !.textureData = ImageData])
  /\ llast' = LoaderCall("imageComplete")
  /\ UNCHANGED <<fieldVars, chainVars, driverVars, surfaceVars, spriteVars, tweenVars>>

\* the image request ends in an error: nothing is posted
ImageError ==
  /\ font.imageRequests > 0
  /\ font' = [font EXCEPT !.imageRequests = @ - 1, !.lost = @ + 1]
  /\ llast' = LoaderCall("imageError")
  /\ UNCHANGED <<fieldVars, chainVars, driverVars, surfaceVars, spriteVars, tweenVars>>

\* the document arrives: the XML asset holds its data and posts COMPLETE
XMLComplete ==
  /\ font.xmlRequests > 0
  /\ LET arrived == [font EXCEPT !.xmlRequests = @ - 1, !.xmlData = DocumentData]
         after == onXMLLoaded(arrived)
     IN  /\ font' = after
         /\ llast' = [LoaderCall("xmlComplete") EXCEPT
                        !.parsed = <<arrived.xmlData, arrived.textureData>>,
                        !.threw = (after.loaded = arrived.loaded)]
  /\ UNCHANGED <<fieldVars, chainVars, driverVars, surfaceVars, spriteVars, tweenVars>>

\* the document request ends in an error: nothing is posted
XMLError ==
  /\ font.xmlRequests > 0
  /\ font' = [font EXCEPT !.xmlRequests = @ - 1, !.lost = @ + 1]
  /\ llast' = LoaderCall("xmlError")
  /\ UNCHANGED <<fieldVars, chainVars, driverVars, surfaceVars, spriteVars, tweenVars>>

LoaderInit ==
  /\ font = NewBitmapFontAsset
  /\ llast = LoaderCall("new")

LoaderNext ==
  \/ Load
  \/ ImageComplete
  \/ ImageError
  \/ XMLComplete
  \/ XMLError

Init == FieldInit /\ ChainInit /\ DriverInit /\ SpriteInit /\ TweenInit /\ LoaderInit

(* ------------------------------------------------------------------ *)
(* Specifications                                                      *)
(* ------------------------------------------------------------------ *)
\* one text field: dirty marking and rendering
SpecField == Init /\ [][FieldNext]_vars

\* the chain under alpha changes
SpecAlpha == Init /\ [][AlphaNext]_vars

\* the chain under blend mode changes
SpecBlend == Init /\ [][BlendNext]_vars

\* the canvas driver
SpecDriver == Init /\ [][DriverNext]_vars

\* the driver under transforms, clears and resizes
SpecSurface == Init /\ [][SurfaceNext]_vars

\* a sprite under dirty marking, its setters and rendering
SpecSprite == Init /\ [][SpriteNext]_vars

\* one tween driven through its interface
SpecTween == Init /\ [][TweenNext]_vars

\* two chained tweens
SpecChained == Init /\ [][ChainedNext]_vars

\* one tween left to run
SpecRun == Init /\ [][RunNext]_vars

\* one text field under its setters and rendering
SpecText == Init /\ [][TextNext]_vars

\* a bitmap font asset under load() and the outcomes of its requests
SpecLoader == Init /\ [][LoaderNext]_vars

(* ------------------------------------------------------------------ *)
(* Properties                                                          *)
(* ------------------------------------------------------------------ *)
Has(mask, flag) == BitAnd(mask, flag) # 0
Rendered == flast.op = "onRender"

\* C1: Clear-on-success only. When onRender runs with RENDER_CACHE set and
\* renderer.isRenderable is false after the rebuild, RENDER_CACHE is still
\* set when onRender returns, however many frames in a row fail; when
\* isRenderable is true the bit is cleared.
C1_ClearOnSuccessOnly ==
  /\ (Rendered /\ Has(flast.pre, RENDER_CACHE))
       => (Has(field.mDirty, RENDER_CACHE) <=> ~flast.isRenderable)
  /\ (Rendered /\ flast.fails > 0) => Has(field.mDirty, RENDER_CACHE)

\* the rebuild failed MaxFails frames in a row and the bit is still set
C1_Witness ==
  /\ Rendered /\ Has(flast.pre, RENDER_CACHE) /\ ~flast.isRenderable
  /\ flast.fails = MaxFails
  /\ Has(field.mDirty, RENDER_CACHE)

\* C2: after every onRender the RENDER bit is clear, whatever
\* renderer.isRenderable was and whatever registerRenderer returned.
C2_RenderAlwaysCleared == Rendered => ~Has(field.mDirty, RENDER)

\* RENDER was set, the rebuild failed and registration returned null
C2_Witness ==
  /\ Rendered /\ Has(flast.pre, RENDER) /\ Has(flast.pre, RENDER_CACHE)
  /\ ~flast.isRenderable /\ flast.ret = 0
  /\ ~Has(field.mDirty, RENDER)

\* C3: clearing behaves as AND-NOT: the mask after onRender is a subset of
\* the mask before it, and every bit other than RENDER and RENDER_CACHE is
\* unchanged.
C3_ClearIsAndNot ==
  Rendered =>
    /\ BitAnd(field.mDirty, flast.pre) = field.mDirty
    /\ BitAnd(field.mDirty, DIRTY - RENDER - RENDER_CACHE)
         = BitAnd(flast.pre, DIRTY - RENDER - RENDER_CACHE)

\* onRender ran on a mask whose RENDER and RENDER_CACHE bits were already
\* clear, with a renderable renderer, and set neither
C3_Witness ==
  /\ Rendered /\ flast.pre = WORLD /\ flast.isRenderable
  /\ field.mDirty = WORLD

Product(nodes) ==
  Mul(Mul(nodes[Root].mAlpha, nodes[NodeA].mAlpha), nodes[NodeB].mAlpha)

\* C4: alpha is inherited multiplicatively: after onRender of a node its
\* renderer's alpha is node.alpha times the parent renderer's alpha, and
\* after B rendered its renderer's alpha is the product of the three alphas.
C4_AlphaInherited ==
  clast.op = "onRender" =>
    /\ chain[clast.node].mRenderer.alpha
         = Mul(chain[clast.node].mAlpha, parentRendererOf(chain, clast.node).alpha)
    /\ clast.node = NodeB => chain[NodeB].mRenderer.alpha = Product(chain)

\* 0.5, 0.8, 1.0 gives 0.4 on B's renderer
C4_Witness ==
  /\ clast.op = "onRender" /\ clast.node = NodeB
  /\ chain[Root].mAlpha = Half /\ chain[NodeA].mAlpha = FourFifths
  /\ chain[NodeB].mAlpha = One
  /\ chain[NodeB].mRenderer.alpha = <<2, 5>>

\* C5: after onRender of a node whose blend mode is AUTO its renderer has the
\* parent renderer's resolved blend mode; a node with a concrete blend mode
\* gets exactly its own mode.
C5_AutoBlendInherited ==
  clast.op = "onRender" =>
    LET node == chain[clast.node]
    IN  /\ node.mBlendMode = AUTO
             => node.mRenderer.blendMode = parentRendererOf(chain, clast.node).blendMode
        /\ node.mBlendMode # AUTO => node.mRenderer.blendMode = node.mBlendMode
        /\ node.mRenderer.blendMode # AUTO

\* an AUTO node under a parent resolved to MULTIPLY renders with MULTIPLY
C5_Witness ==
  /\ clast.op = "onRender" /\ clast.node = NodeB
  /\ chain[NodeB].mBlendMode = AUTO
  /\ chain[NodeA].mRenderer.blendMode = MULTIPLY
  /\ chain[NodeB].mRenderer.blendMode = MULTIPLY

driverState == <<mGlobalAlpha, mGlobalBlendMode, mClientWidth, mClientHeight,
                 mStageScaleFactor, mCtx>>

DrawCall(call) == call.op \in {"drawTexture", "drawTextureWithOffset"}
DrawnTexture(call) == IF call.op = "drawTexture" THEN call.arg ELSE call.arg[1]

\* C6: drawTexture and drawTextureWithOffset with a texture that is not valid
\* issue no drawImage call and leave the driver state unchanged; with a valid
\* texture exactly one drawImage call is issued.
C6_TextureSkip ==
  [][DrawCall(dlast') =>
       /\ DrawnTexture(dlast').isValid = FALSE
            => (Len(dlast'.draws) = 0 /\ UNCHANGED driverState)
       /\ DrawnTexture(dlast').isValid = TRUE => Len(dlast'.draws) = 1]_vars

\* a draw of the missing texture issued nothing
C6_Witness ==
  /\ DrawCall(dlast) /\ DrawnTexture(dlast) = MissingTexture
  /\ dlast.draws = << >>

\* C7: after __onResize the first write globalAlpha = x and the first write
\* globalBlendMode = y (y not AUTO) reach the canvas context, for every x
\* and y, also when they equal the values applied before the resize.
C7_ResizeInvalidates ==
  [][/\ (dlast'.op = "globalAlpha" /\ pending.alpha # << >>)
          => (dlast'.alphaWrites = 1 /\ mCtx'.state.globalAlpha = dlast'.arg)
     /\ (dlast'.op = "globalBlendMode" /\ dlast'.arg # AUTO /\ pending.blendMode # << >>)
          => /\ dlast'.blendWrites = 1
             /\ mCtx'.state.globalCompositeOperation = CanvasBlendMode(dlast'.arg)]_vars

\* the first alpha write after a resize carried the alpha applied before
\* the resize and was forwarded
C7_Witness ==
  /\ dlast.op = "globalAlpha" /\ dlast.first = <<dlast.arg>>
  /\ dlast.alphaWrites = 1
  /\ mCtx.state.globalAlpha = dlast.arg

\* C8: the short-circuit never changes the result: right after a write
\* globalAlpha = x the context's alpha is x, and right after a write
\* globalBlendMode = y (y not AUTO) the context's composite operation is the
\* one mapped from y.
C8_WritesReachContext ==
  /\ dlast.op = "globalAlpha" => mCtx.state.globalAlpha = dlast.arg
  /\ (dlast.op = "globalBlendMode" /\ dlast.arg # AUTO)
       => mCtx.state.globalCompositeOperation = CanvasBlendMode(dlast.arg)

\* C9: apply only on change: a write of the value the shadow holds performs
\* no context write and leaves the shadow unchanged; a write of a different
\* value performs exactly one context write and stores it in the shadow.
C9_ApplyOnlyOnChange ==
  [][/\ dlast'.op = "globalAlpha" =>
          IF dlast'.arg = mGlobalAlpha
          THEN dlast'.alphaWrites = 0 /\ UNCHANGED <<mGlobalAlpha, mCtx>>
          ELSE /\ dlast'.alphaWrites = 1
               /\ mGlobalAlpha' = dlast'.arg
               /\ mCtx'.state.globalAlpha = dlast'.arg
     /\ (dlast'.op = "globalBlendMode" /\ dlast'.arg # AUTO) =>
          IF CanvasBlendMode(dlast'.arg) = mGlobalBlendMode
          THEN dlast'.blendWrites = 0 /\ UNCHANGED <<mGlobalBlendMode, mCtx>>
          ELSE /\ dlast'.blendWrites = 1
               /\ mGlobalBlendMode' = CanvasBlendMode(dlast'.arg)
               /\ mCtx'.state.globalCompositeOperation = CanvasBlendMode(dlast'.arg)]_vars

\* a write of the alpha the driver holds was not forwarded
C9_Witness ==
  /\ dlast.op = "globalAlpha" /\ dlast.alphaWrites = 0
  /\ dlast.arg = mGlobalAlpha /\ mGlobalAlpha = Half

\* C10: a write globalBlendMode = AUTO leaves the shadow blend mode and the
\* context's composite operation as they were, in every driver state.
C10_AutoIsNoChange ==
  [][(dlast'.op = "globalBlendMode" /\ dlast'.arg = AUTO)
       => (dlast'.blendWrites = 0 /\ UNCHANGED <<mGlobalBlendMode, mCtx>>)]_vars

\* AUTO was written while the shadow was still unset after a resize
C10_Witness ==
  /\ dlast.op = "globalBlendMode" /\ dlast.arg = AUTO
  /\ pending.blendMode # << >> /\ mGlobalBlendMode = UnsetBlendMode

\* C11: clip scopes nest last-in-first-out. The context holds one saved
\* state per open beginClip; the active clip is the list of exactly the
\* rectangles of the open scopes, the i-th saved state holding the clip of
\* the scopes opened before it; with no scope open the clip is the
\* unclipped region. beginClip adds its scaled rectangle as the innermost
\* one, and endClip with a scope open removes the innermost one and no other.
ClipsNested ==
  /\ Len(mCtx.state.clip) = Len(mCtx.stack)
  /\ \A i \in 1 .. Len(mCtx.stack) :
       mCtx.stack[i].clip = SubSeq(mCtx.state.clip, 1, i - 1)

C11_ClipScopesNest ==
  /\ []ClipsNested
  /\ [][/\ dlast'.op = "beginClip" =>
            LET clipRect == dlast'.arg[1]
                r == mStageScaleFactor
            IN  mCtx'.state.clip =
                  Append(mCtx.state.clip,
                         <<(clipRect.x + dlast'.arg[2]) * r, (clipRect.y + dlast'.arg[3]) * r,
                           clipRect.width * r, clipRect.height * r>>)
        /\ (dlast'.op = "endClip" /\ dlast'.arg > 0) =>
            /\ mCtx'.state.clip = SubSeq(mCtx.state.clip, 1, Len(mCtx.state.clip) - 1)
            /\ Len(mCtx'.stack) = Len(mCtx.stack) - 1]_vars

\* two scopes were opened and the inner one was closed: the clip is the
\* outer rectangle alone
C11_Witness ==
  /\ dlast.op = "endClip" /\ dlast.arg = 2
  /\ Len(mCtx.stack) = 1
  /\ mCtx.state.clip = << <<1 * mStageScaleFactor, 0, 2 * mStageScaleFactor, 2 * mStageScaleFactor>> >>

\* C12: an endClip with no beginClip open ends in a failed assertion
\* instead of returning normally.
C12_UnmatchedEndClipAsserts ==
  (dlast.op = "endClip" /\ dlast.arg = 0) => dlast.asserted

\* the texture with the origin of its untrimmed region moved by (ox, oy)
Shifted(texture, ox, oy) ==
  [texture EXCEPT !.untrimmedRegion.x = @ + ox, !.untrimmedRegion.y = @ + oy]

\* C14: drawTextureWithOffset(texture, ox, oy) issues the blit drawTexture
\* issues for the texture whose untrimmed region origin is moved by
\* (ox, oy): same image, source rectangle and destination rectangle; and
\* drawTexture(texture) issues the blit of drawTextureWithOffset(texture, 0, 0).
C14_OffsetIsShiftedRegion ==
  /\ dlast.op = "drawTextureWithOffset" =>
       dlast.draws = Draws(Shifted(dlast.arg[1], dlast.arg[2], dlast.arg[3]))
  /\ dlast.op = "drawTexture" =>
       dlast.draws = DrawsWithOffset(dlast.arg, 0, 0)

\* a trimmed texture was drawn with a non-zero offset at device scale 2
C14_Witness ==
  /\ dlast.op = "drawTextureWithOffset"
  /\ dlast.arg = <<TrimmedTexture, 1, 2>>
  /\ mStageScaleFactor = 2
  /\ Len(dlast.draws) = 1
  /\ dlast.draws[1].dx = 4 /\ dlast.draws[1].dy = 6

\* C13: setTransform ends in a failed assertion when one of the six
\* components is NaN, +Infinity or -Infinity, and then the driver's matrix
\* is not the matrix handed in and no call with it reaches the context;
\* when all six are finite no assertion fails.
C13_NonFiniteFailsFast ==
  dlast.op = "setTransform" =>
    IF \E i \in 1 .. 6 : ~isFinite(dlast.arg[i])
    THEN /\ dlast.asserted
         /\ mTransform # dlast.arg
         /\ dlast.calls = << >>
    ELSE ~dlast.asserted

\* does the latest paint cover the whole canvas
CoversCanvas(ctx) ==
  /\ ~ctx.surface.clipped
  /\ ~Less(Whole(0), ctx.surface.region[1])
  /\ ~Less(Whole(0), ctx.surface.region[2])
  /\ ~Less(ctx.surface.region[3], Whole(ctx.width))
  /\ ~Less(ctx.surface.region[4], Whole(ctx.height))

\* C16: clear first sets the context's transform to the identity and then
\* paints: with an opaque viewport its last call is fillRect over
\* (0, 0, canvas.width, canvas.height) with the viewport's background colour
\* as fill style, with a transparent viewport it is clearRect over the same
\* rectangle; the paint covers the whole canvas whatever transform was
\* active before.
C16_ClearResetsThenPaints ==
  dlast.op = "clear" =>
    LET n == Len(dlast.calls)
    IN  /\ dlast.arg = viewport
        /\ dlast.calls[1].fn = "setTransform"
        /\ dlast.calls[1].args = IdentityTransform
        /\ mCtx.state.transform = IdentityTransform
        /\ dlast.calls[n].args = <<0, 0, mCtx.width, mCtx.height>>
        /\ CoversCanvas(mCtx)
        /\ IF viewport.isTransperent = FALSE
           THEN /\ dlast.calls[n].fn = "fillRect"
                /\ mCtx.surface.paint = "fill"
                /\ mCtx.surface.style = HexDigits(viewport.backgroundColor, 6)
           ELSE /\ dlast.calls[n].fn = "clearRect"
                /\ mCtx.surface.paint = "clear"

\* an opaque white viewport was cleared while the context held a transform
\* that moves the origin
C16_Witness ==
  /\ dlast.op = "clear"
  /\ dlast.pre[1] # IdentityTransform
  /\ viewport = [isTransperent |-> FALSE, backgroundColor |-> 16777215]
  /\ mCtx.surface.paint = "fill"
  /\ mCtx.surface.style = <<15, 15, 15, 15, 15, 15>>
  /\ mCtx.surface.region = <<Whole(0), Whole(0), Whole(mCtx.width), Whole(mCtx.height)>>

\* the largest integer not above v, and the least not below it
Floor(v) == Whole(v[1] \div v[2])
Ceiling(v) == Whole(-((-v[1]) \div v[2]))

\* setTransform went through with a matrix of finite components
TransformSent ==
  /\ dlast.op = "setTransform" /\ ~dlast.asserted
  /\ \A i \in 1 .. 6 : isFinite(dlast.arg[i])

\* C17 as stated: with snapping on, the context receives snap(tx) * scale
\* and snap(ty) * scale, snap(t) being an integer next to t; with
\* snapping off it receives tx * scale and ty * scale; a, b, c, d are
\* passed unchanged.
C17_SnapBeforeScale ==
  TransformSent =>
    LET v == dlast.arg
        sent == dlast.calls[1].args
        scale == mStageScaleFactor
    IN  /\ \A i \in 1 .. 4 : sent[i] = v[i]
        /\ \A i \in 5 .. 6 :
             IF mSnapToPixels
             THEN sent[i] \in {Times(Floor(v[i]), scale), Times(Ceiling(v[i]), scale)}
             ELSE sent[i] = Times(v[i], scale)

\* C17, amended: with snapping on, the context receives the integer that
\* tx * scale (ty * scale) becomes when its fraction is dropped: the
\* integer n with n <= t * scale < n + 1 for t * scale >= 0 and
\* n - 1 < t * scale <= n for t * scale < 0; with snapping off it receives
\* tx * scale and ty * scale; a, b, c, d are passed unchanged, and the
\* driver's matrix is the one handed in.
C17_ScaleThenTruncate ==
  TransformSent =>
    LET v == dlast.arg
        sent == dlast.calls[1].args
        scale == mStageScaleFactor
    IN  /\ mTransform = v
        /\ mCtx.state.transform = sent
        /\ \A i \in 1 .. 4 : sent[i] = v[i]
        /\ \A i \in 5 .. 6 :
             LET scaled == Times(v[i], scale)
             IN  IF mSnapToPixels
                 THEN /\ sent[i][2] = 1
                      /\ IF scaled[1] >= 0
                         THEN ~Less(scaled, sent[i]) /\ Less(scaled, Plus(sent[i], Whole(1)))
                         ELSE Less(Plus(sent[i], Whole(-1)), scaled) /\ ~Less(sent[i], scaled)
                 ELSE sent[i] = scaled

\* tx = 1.5 and ty = -1.5 were sent at device scale 2 with snapping on: the
\* context received 3 and -3
C17_Witness ==
  /\ TransformSent
  /\ dlast.arg = Shift
  /\ mSnapToPixels /\ mStageScaleFactor = 2
  /\ mCtx.state.transform[5] = Whole(3)
  /\ mCtx.state.transform[6] = Whole(-3)

\* the sprite as it was left by the latest call, and with other masks
WithMasks(node, masks) == [node EXCEPT !.mDirty = masks[1], !.childDirty = masks[2]]

\* C15: setDirty(F, propagate) ORs F into the mask: calling it again with
\* the same F changes nothing, and no bit that was set is cleared; the
\* Sprite setters end with setDirty(RENDER_CACHE, false) and
\* setRenderDirty() in one order or the other, and both orders leave the
\* masks the setter left.
C15_SetDirtyIdempotent ==
  /\ slast.op = "setDirty" =>
       /\ sprite.mDirty = BitOr(slast.pre[1], slast.arg[1])
       /\ SpriteSetDirty(sprite, slast.arg[1], slast.arg[2]) = sprite
       /\ BitAnd(sprite.mDirty, slast.pre[1]) = slast.pre[1]
       /\ BitAnd(sprite.childDirty, slast.pre[2]) = slast.pre[2]
  /\ (slast.op \in {"texture", "tiling", "slice9grid"} /\ slast.mid # << >>) =>
       /\ sprite = MarkTexture(WithMasks(sprite, slast.mid))
       /\ sprite = MarkGrid(WithMasks(sprite, slast.mid))

\* tiling was assigned on a sprite that, like its child, owed neither
\* RENDER nor RENDER_CACHE: both are set on the sprite, RENDER alone on
\* its child
C15_Witness ==
  /\ slast.op = "tiling" /\ slast.mid = <<WORLD, WORLD>>
  /\ sprite.mDirty = WORLD + RENDER + RENDER_CACHE
  /\ sprite.childDirty = WORLD + RENDER

\* C18: after play() returns the tween is playing and not paused, whatever
\* play, pause, stop and reset calls came before.
C18_PlayStartsTweening ==
  twlast.op = "play" =>
    (tweens[twlast.tween].mIsPlaying /\ ~tweens[twlast.tween].mIsPaused)

\* C19: after a.chain(b) with b neither added nor playing, b is not playing
\* until a has posted 'complete' (or b.play() was called by the program);
\* in every frame in which a posts 'complete' the play() of each tween
\* chained to it is called; a tween chain() was called on is still on its
\* game object after it posted 'complete'; chain(null) returns the tween it
\* was called on and changes no tween.
C19_ChainOrdering ==
  /\ \A b \in Tweens : tweens[b].seen.waiting => ~tweens[b].mIsPlaying
  /\ twlast.op = "frame" =>
       \A a \in Tweens :
         Posts(twlast.posted[a], "complete") =>
           /\ \A i \in 1 .. Len(tweens[a].listeners) :
                \E j \in 1 .. Len(twlast.played) : twlast.played[j] = tweens[a].listeners[i]
           /\ (tweens[a].seen.forced /\ twlast.pre[1][a].added) => tweens[a].added
  /\ (twlast.op = "chain" /\ twlast.arg = NoTween) =>
       (twlast.ret = twlast.tween /\ tweens = twlast.pre[1])

\* B was chained to A before it was added, then added; A ran to its end:
\* it posted 'complete', stays on its game object, and B is playing
C19_Witness ==
  /\ twlast.op = "frame"
  /\ Posts(twlast.posted[TweenA], "complete")
  /\ tweens[TweenA].listeners = <<TweenB>>
  /\ tweens[TweenA].seen.forced /\ tweens[TweenA].added
  /\ tweens[TweenB].added /\ ~tweens[TweenB].mPlayOnAdded
  /\ tweens[TweenB].mIsPlaying /\ ~tweens[TweenB].seen.waiting

\* C20: a tween that was started while idle and then left to run (no play,
\* stop, reset, repeat or removal in between) has posted exactly n 'loop'
\* messages when it posts 'complete', n being the argument of the latest
\* repeat() call; this holds for every such run, the later ones included.
C20_RepeatCount ==
  twlast.op = "frame" =>
    \A x \in Tweens :
      (twlast.runs[x] # << >> /\ twlast.runs[x][1].clean) =>
        twlast.runs[x][1].loops = twlast.runs[x][1].repeatSet

\* C21: under every interleaving of the setters text, multiline, lineHeight,
\* fieldWidth, fieldHeight, autoSize and of onRender, from a field whose
\* RENDER_CACHE bit is set: whenever RENDER_CACHE is clear, the renderer's
\* text, multiline, lineHeight, fieldWidth, fieldHeight and autoSize equal
\* the field's current values.
C21_CleanCacheMeansRendererCurrent ==
  ~Has(field.mDirty, RENDER_CACHE) =>
    /\ field.mRenderer.text = field.mText
    /\ field.mRenderer.multiline = field.mMultiline
    /\ field.mRenderer.lineHeight = field.mLineHeight
    /\ field.mRenderer.fieldWidth = field.mFieldWidth
    /\ field.mRenderer.fieldHeight = field.mFieldHeight
    /\ field.mRenderer.autoSize = field.mAutoSize

C21_Witness ==
  /\ Rendered /\ Has(flast.pre, RENDER_CACHE) /\ flast.isRenderable
  /\ ~Has(field.mDirty, RENDER_CACHE)
  /\ field.mText # NoText /\ field.mMultiline /\ field.mLineHeight = 10
  /\ field.mFieldWidth = 5 /\ field.mFieldHeight = 5 /\ ~field.mAutoSize

\* C22: an onRender that finds neither RENDER nor RENDER_CACHE set leaves the
\* field's dirty mask and every renderer field unchanged except
\* renderer.dirty; renderer.dirty receives the mask as it was on entry in
\* every onRender, and the handle registerRenderer gave is what is returned.
C22_CleanRenderOnlyStampsDirty ==
  [][flast'.op = "onRender" =>
       /\ field'.mRenderer.dirty = field.mDirty
       /\ flast'.ret \in Handles
       /\ (~Has(field.mDirty, RENDER) /\ ~Has(field.mDirty, RENDER_CACHE)) =>
            field' = [field EXCEPT !.mRenderer.dirty = field.mDirty]]_vars

C22_Witness ==
  /\ Rendered /\ flast.pre = WORLD /\ ~flast.isRenderable /\ flast.ret = 1
  /\ field.mDirty = WORLD /\ field.mRenderer.dirty = WORLD
  /\ field.mRenderer.text # NoText

\* C23: pause() on a tween that is already paused, or that is not playing,
\* changes nothing; a play() that resumes a playing, paused tween shifts its
\* start time by exactly the time that passed since the tween first became
\* paused, however many pause() calls came in between.
C23_ResumeShiftsByPausedSpan ==
  [][/\ (twlast'.op = "pause"
           /\ (tweens[TweenA].mIsPaused \/ ~tweens[TweenA].mIsPlaying)) =>
          tweens' = tweens
     /\ (twlast'.op = "play" /\ tweens[TweenA].mIsPlaying /\ tweens[TweenA].mIsPaused) =>
          tweens'[TweenA].mStartTime =
            tweens[TweenA].mStartTime + (uptime - tweens[TweenA].seen.pausedAt)]_vars

ElapsedInUnit ==
  \A x \in Tweens :
    /\ isFinite(tweens[x].mElapsed)
    /\ ~Less(tweens[x].mElapsed, Whole(0))
    /\ ~Less(One, tweens[x].mElapsed)

\* C24: elapsed stays within [0, 1] at every step, for every duration >= 0
\* and delay >= 0. A frame that finds the tween added, playing, not paused
\* and its duration over ends the cycle: it posts 'loop' and takes one from
\* the repeat count while the count is positive, and posts 'complete' and
\* stops playing otherwise, so that a finite repeat count runs out. A frame
\* that posts 'update' belongs to a run whose 'start' was posted once, and
\* a tween that is not playing posts nothing.
C24_RunEndsInComplete ==
  /\ []ElapsedInUnit
  /\ [][twlast'.op = "frame" =>
          LET tw == tweens[TweenA]
              after == tweens'[TweenA]
              posted == twlast'.posted[TweenA]
          IN  /\ (tw.added /\ tw.mIsPlaying /\ ~tw.mIsPaused
                    /\ uptime' - tw.mStartTime >= tw.mDuration) =>
                   IF tw.mRepeatTimes > 0
                   THEN Posts(posted, "loop") /\ after.mRepeatTimes = tw.mRepeatTimes - 1
                   ELSE Posts(posted, "complete") /\ ~after.mIsPlaying
              /\ Posts(posted, "update") => after.seen.starts = 1
              /\ Posts(posted, "start") => posted[1] = "start" /\ tw.seen.starts = 0
              /\ ~tw.mIsPlaying => posted = << >>]_vars

\* C25: assigning Sprite.texture a texture other than the one held, or
\* assigning tiling or slice9grid, leaves RENDER and RENDER_CACHE set on the
\* sprite and does not hand RENDER_CACHE to the child; assigning the texture
\* already held changes nothing; assigning null to a sprite that holds a
\* texture is accepted like any other texture and the getter returns null.
C25_ContentSettersMarkBoth ==
  [][/\ (slast'.op = "texture" /\ slast'.arg # sprite.mTexture) =>
          /\ ~slast'.threw
          /\ sprite'.mTexture = slast'.arg
     /\ ((slast'.op = "texture" /\ slast'.arg # sprite.mTexture)
           \/ slast'.op \in {"tiling", "slice9grid"}) =>
          /\ Has(sprite'.mDirty, RENDER) /\ Has(sprite'.mDirty, RENDER_CACHE)
          /\ Has(sprite'.childDirty, RENDER_CACHE) => Has(sprite.childDirty, RENDER_CACHE)
     /\ (slast'.op = "texture" /\ slast'.arg = sprite.mTexture) =>
          sprite' = sprite]_vars

\* C26: load() starts only the image request; the XML request is started
\* only by the image asset's COMPLETE; the font is parsed and the asset
\* reports loaded only on the XML asset's COMPLETE, with both the texture
\* data and the XML data there when parse runs; and the asset reports loaded
\* once per load(): every load() is either still in flight, lost to a
\* failed request, or reported exactly once.
C26_ImageThenXmlThenLoaded ==
  /\ [](/\ font.loads = font.imageRequests + font.xmlRequests + font.lost + font.loaded
        /\ font.mIsLoaded <=> font.loaded > 0
        /\ font.mIsLoaded <=> font.mData # << >>
        /\ font.xmlRequests > 0 => font.textureData # NoData)
  /\ [][/\ font'.imageRequests > font.imageRequests =>
             llast'.op = "load" /\ font'.xmlRequests = font.xmlRequests
        /\ font'.xmlRequests > font.xmlRequests => llast'.op = "imageComplete"
        /\ font'.loaded # font.loaded =>
             /\ llast'.op = "xmlComplete"
             /\ llast'.parsed = <<DocumentData, ImageData>>
             /\ font'.loaded = font.loaded + 1
             /\ font'.mData = << [xml |-> DocumentData, texture |-> ImageData] >>
        /\ llast'.op = "xmlComplete" => ~llast'.threw]_vars

C26_Witness ==
  /\ llast.op = "xmlComplete" /\ ~llast.threw
  /\ font.loads = 2 /\ font.loaded = 2 /\ font.mIsLoaded
  /\ font.imageRequests = 0 /\ font.xmlRequests = 0

====
